---------------------------- MODULE Spec2Model ----------------------------
(***************************************************************************)
(* A model of ruuvi-terminal-client: the refresh/render loop of main.rs,   *)
(* the configuration of the backend format, and the two format adapters    *)
(* (formatters/ruuvi_gateway.rs and formatters/custom_ruuvi_api.rs).       *)
(*                                                                         *)
(* Representation.                                                         *)
(*  - Time is in whole seconds (chrono's num_seconds / timestamp).         *)
(*  - An f64 is held in hundredths (21.5 is 2150, 2.0 V is 200).           *)
(*  - A JSON value is a record tagged by "type"; an object is the sequence *)
(*    of its members in the iteration order of serde_json's Map, with      *)
(*    pairwise distinct keys.                                              *)
(*  - An i64 is a record [val, far]: far marks an integer that fits i64    *)
(*    but lies outside the range chrono's NaiveDateTime can represent.     *)
(*  - A Rust String is a text record: PlainText(s) for a text that is no   *)
(*    RFC 3339 instant, or the fields of the RFC 3339 date-time it spells. *)
(*    Object keys and error messages are plain TLA+ strings.               *)
(***************************************************************************)
EXTENDS Integers, Sequences, FiniteSets, TLC

VARIABLES
    pc,              \* position of main(): see the actions below
    env,             \* process environment: [api_url, backend_format]
    config,          \* Config built by load_config
    clock,           \* the wall clock, Utc::now()
    now,             \* main's local `now` of the current iteration
    last_refresh,    \* main's last_refresh
    data,            \* main's data: the ApiResponse held by the loop
    network_error,   \* main's network_error
    keys,            \* keystrokes typed and not yet read by getch
    screen,          \* what the last render call received
    hist,            \* history of the run, for stating the properties
    value,           \* adapter harness: the raw JSON value under parse
    result,          \* adapter harness: the Result the adapter returned
    again            \* adapter harness: the Result of parsing value once more

vars == << pc, env, config, clock, now, last_refresh, data, network_error,
           keys, screen, hist, value, result, again >>

-----------------------------------------------------------------------------
(* Bounds of the model. *)

StartTime == 1700000000  \* the wall clock when main starts
MaxTime == 62            \* the wall clock stops advancing this long after StartTime
MaxKeys == 1             \* keystrokes buffered at a time
MaxSlack == 0            \* seconds an iteration may take beyond its 1-second sleep
MaxReparseDelay == 1     \* seconds between two parses of the same value

-----------------------------------------------------------------------------
(* Option and Result. *)

None == [some |-> FALSE]
Some(x) == [some |-> TRUE, val |-> x]
unwrap_or(opt, default) == IF opt.some THEN opt.val ELSE default

Ok(tags) == [ok |-> TRUE, tags |-> tags]
Err(msg) == [ok |-> FALSE, err |-> msg]

-----------------------------------------------------------------------------
(* serde_json::Value. *)

JNull == [type |-> "null"]
JBool(b) == [type |-> "bool", b |-> b]
\* An integer literal n.
JInt(n) == [type |-> "number", repr |-> "int", val |-> n]
\* A literal with a fraction or exponent, of value h hundredths.
JFloat(h) == [type |-> "number", repr |-> "float", val |-> h]
\* An integer literal within i64 but beyond chrono's representable instants;
\* val is what stands for it as an f64.
JFarInt == [type |-> "number", repr |-> "farint", val |-> 2147483647]
\* A text that is not a date-time.
PlainText(s) == [wf |-> FALSE, text |-> s]
JStr(s) == [type |-> "string", str |-> PlainText(s)]
\* A JSON string whose content is the date-time text d.
JDate(d) == [type |-> "string", str |-> d]
JArr(items) == [type |-> "array", items |-> items]
\* members: a sequence of <<key, value>> with distinct keys.
JObj(members) == [type |-> "object", members |-> members]

is_object(v) == v.type = "object"

\* Value::get(key): the member of an object, None for any other value.
get(v, key) ==
    IF is_object(v) /\ \E i \in 1..Len(v.members) : v.members[i][1] = key
    THEN Some(v.members[CHOOSE i \in 1..Len(v.members) : v.members[i][1] = key][2])
    ELSE None

\* value[key]: Null when value is no object or has no such member.
Index(v, key) == unwrap_or(get(v, key), JNull)

\* Value::as_f64: any number, as f64 (hundredths).
as_f64(v) ==
    IF v.type = "number" /\ v.repr = "int" THEN Some(v.val * 100)
    ELSE IF v.type = "number" THEN Some(v.val)
    ELSE None

\* Value::as_i64: integer literals only.
as_i64(v) ==
    IF v.type = "number" /\ v.repr = "int" THEN Some([val |-> v.val, far |-> FALSE])
    ELSE IF v.type = "number" /\ v.repr = "farint" THEN Some([val |-> 0, far |-> TRUE])
    ELSE None

\* Option::and_then(|v| f(v)) for the two accessors used by the adapter.
and_then_as_f64(opt) == IF opt.some THEN as_f64(opt.val) ELSE None
and_then_as_i64(opt) == IF opt.some THEN as_i64(opt.val) ELSE None

-----------------------------------------------------------------------------
(* chrono: epoch seconds to RFC 3339 text. *)

SecondsPerDay == 86400

\* Days since 1970-01-01 to the civil date <<year, month, day>>.
CivilFromDays(z0) ==
    LET z   == z0 + 719468
        era == z \div 146097
        doe == z - era * 146097
        yoe == (doe - doe \div 1460 + doe \div 36524 - doe \div 146096) \div 365
        y   == yoe + era * 400
        doy == doe - (365 * yoe + yoe \div 4 - yoe \div 100)
        mp  == (5 * doy + 2) \div 153
        d   == doy - (153 * mp + 2) \div 5 + 1
        m   == IF mp < 10 THEN mp + 3 ELSE mp - 9
    IN  << IF m <= 2 THEN y + 1 ELSE y, m, d >>

\* NaiveDateTime::from_timestamp_opt(secs, 0): None beyond chrono's range.
from_timestamp_opt(secs) ==
    IF secs.far THEN None
    ELSE LET days == secs.val \div SecondsPerDay
             sod  == secs.val % SecondsPerDay
             ymd  == CivilFromDays(days)
         IN  Some([year |-> ymd[1], month |-> ymd[2], day |-> ymd[3],
                   hour |-> sod \div 3600, minute |-> (sod % 3600) \div 60,
                   second |-> sod % 60])

\* DateTime::<Utc>::from_utc(naive, Utc).to_rfc3339(): the text
\* YYYY-MM-DDTHH:MM:SS+00:00, held as its fields.
to_rfc3339(naive) ==
    [wf |-> TRUE, year |-> naive.year, month |-> naive.month, day |-> naive.day,
     hour |-> naive.hour, minute |-> naive.minute, second |-> naive.second,
     offset |-> 0]

-----------------------------------------------------------------------------
(* formatters/ruuvi_gateway.rs *)

DefaultTemperature == 0
DefaultHumidity == 0
DefaultVoltage == 300
BatteryLowVoltage == 200

BatteryLowStrict(voltage) == voltage < BatteryLowVoltage

\* let battery_low = voltage <= 2.0;
BatteryLow(voltage) == voltage <= BatteryLowVoltage

Metric(current, min, max, trend) ==
    [current |-> current, min |-> min, max |-> max, trend |-> trend]

\* The loop body with min and max left at the defaults instead of the reading.
GatewayTagNoBounds(mac, tag_data, utc_now) ==
    LET temperature == unwrap_or(and_then_as_f64(get(tag_data, "temperature")), DefaultTemperature)
        humidity    == unwrap_or(and_then_as_f64(get(tag_data, "humidity")), DefaultHumidity)
        voltage     == unwrap_or(and_then_as_f64(get(tag_data, "voltage")), DefaultVoltage)
        timestamp   == unwrap_or(and_then_as_i64(get(tag_data, "timestamp")),
                                 [val |-> utc_now, far |-> FALSE])
        naive       == from_timestamp_opt(timestamp)
    IN  IF ~naive.some THEN Err("Invalid timestamp")
        ELSE Ok(<< [id |-> 0, tag_id |-> 0,
                    datetime |-> to_rfc3339(naive.val),
                    temperature |-> Metric(temperature, DefaultTemperature, DefaultTemperature, 0),
                    humidity |-> Metric(humidity, DefaultHumidity, DefaultHumidity, 0),
                    battery_low |-> BatteryLow(voltage),
                    tag_name |-> PlainText(mac)] >>)

\* The loop body with every tag named by a fixed label instead of its key.
GatewayTagFixedName(mac, tag_data, utc_now) ==
    LET temperature == unwrap_or(and_then_as_f64(get(tag_data, "temperature")), DefaultTemperature)
        humidity    == unwrap_or(and_then_as_f64(get(tag_data, "humidity")), DefaultHumidity)
        voltage     == unwrap_or(and_then_as_f64(get(tag_data, "voltage")), DefaultVoltage)
        timestamp   == unwrap_or(and_then_as_i64(get(tag_data, "timestamp")),
                                 [val |-> utc_now, far |-> FALSE])
        naive       == from_timestamp_opt(timestamp)
    IN  IF ~naive.some THEN Err("Invalid timestamp")
        ELSE Ok(<< [id |-> 0, tag_id |-> 0,
                    datetime |-> to_rfc3339(naive.val),
                    temperature |-> Metric(temperature, temperature, temperature, 0),
                    humidity |-> Metric(humidity, humidity, humidity, 0),
                    battery_low |-> BatteryLow(voltage),
                    tag_name |-> PlainText("Unknown")] >>)

\* The loop body with humidity read from the "temperature" member.
GatewayTagSwapped(mac, tag_data, utc_now) ==
    LET temperature == unwrap_or(and_then_as_f64(get(tag_data, "temperature")), DefaultTemperature)
        humidity    == unwrap_or(and_then_as_f64(get(tag_data, "temperature")), DefaultHumidity)
        voltage     == unwrap_or(and_then_as_f64(get(tag_data, "voltage")), DefaultVoltage)
        timestamp   == unwrap_or(and_then_as_i64(get(tag_data, "timestamp")),
                                 [val |-> utc_now, far |-> FALSE])
        naive       == from_timestamp_opt(timestamp)
    IN  IF ~naive.some THEN Err("Invalid timestamp")
        ELSE Ok(<< [id |-> 0, tag_id |-> 0,
                    datetime |-> to_rfc3339(naive.val),
                    temperature |-> Metric(temperature, temperature, temperature, 0),
                    humidity |-> Metric(humidity, humidity, humidity, 0),
                    battery_low |-> BatteryLow(voltage),
                    tag_name |-> PlainText(mac)] >>)

\* The body of the for loop for one (mac, tag_data): Ok(<<tag>>) or the Err
\* the `?` on the timestamp returns.
GatewayTag(mac, tag_data, utc_now) ==
    LET temperature == unwrap_or(and_then_as_f64(get(tag_data, "temperature")), DefaultTemperature)
        humidity    == unwrap_or(and_then_as_f64(get(tag_data, "humidity")), DefaultHumidity)
        voltage     == unwrap_or(and_then_as_f64(get(tag_data, "voltage")), DefaultVoltage)
        timestamp   == unwrap_or(and_then_as_i64(get(tag_data, "timestamp")),
                                 [val |-> utc_now, far |-> FALSE])
        battery_low == BatteryLow(voltage)
        naive       == from_timestamp_opt(timestamp)
    IN  IF ~naive.some THEN Err("Invalid timestamp")
        ELSE Ok(<< [id |-> 0, tag_id |-> 0,
                    datetime |-> to_rfc3339(naive.val),
                    temperature |-> Metric(temperature, temperature, temperature, 0),
                    humidity |-> Metric(humidity, humidity, humidity, 0),
                    battery_low |-> battery_low,
                    tag_name |-> PlainText(mac)] >>)

\* The for loop over the members from index i on, tags being the Vec so far.
RECURSIVE GatewayLoop(_, _, _, _)
GatewayLoop(members, i, tags, utc_now) ==
    IF i > Len(members) THEN Ok(tags)
    ELSE LET one == GatewayTag(members[i][1], members[i][2], utc_now)
         IN  IF ~one.ok THEN one
             ELSE GatewayLoop(members, i + 1, tags \o one.tags, utc_now)

\* A missing or non-object data.tags read as no devices.
ParseGatewayLenient(v, utc_now) ==
    LET tags_obj == Index(Index(v, "data"), "tags")
    IN  IF ~is_object(tags_obj) THEN Ok(<< >>)
        ELSE GatewayLoop(tags_obj.members, 1, << >>, utc_now)

parse_ruuvi_gateway_format(v, utc_now) ==
    LET tags_obj == Index(Index(v, "data"), "tags")
    IN  IF ~is_object(tags_obj) THEN Err("Expected 'tags' to be an object")
        ELSE GatewayLoop(tags_obj.members, 1, << >>, utc_now)

-----------------------------------------------------------------------------
(* formatters/custom_ruuvi_api.rs: serde's derived Deserialize for Vec<Tag>. *)

\* A struct is read from an object by field name, or from an array of exactly
\* n elements by position.
StructShape(v, n) == is_object(v) \/ (v.type = "array" /\ Len(v.items) = n)

Field(v, name, pos) ==
    IF is_object(v) THEN get(v, name)
    ELSE IF v.type = "array" /\ pos <= Len(v.items) THEN Some(v.items[pos])
    ELSE None

DecodeU32(v) ==
    IF v.type = "number" /\ v.repr = "int" /\ v.val >= 0 THEN Some(v.val) ELSE None

DecodeI8(v) ==
    IF v.type = "number" /\ v.repr = "int" /\ v.val >= -128 /\ v.val <= 127
    THEN Some(v.val) ELSE None

DecodeF64(v) == as_f64(v)

DecodeBool(v) == IF v.type = "bool" THEN Some(v.b) ELSE None

DecodeString(v) == IF v.type = "string" THEN Some(v.str) ELSE None

and_then_u32(opt) == IF opt.some THEN DecodeU32(opt.val) ELSE None
and_then_i8(opt) == IF opt.some THEN DecodeI8(opt.val) ELSE None
and_then_f64(opt) == IF opt.some THEN DecodeF64(opt.val) ELSE None
and_then_bool(opt) == IF opt.some THEN DecodeBool(opt.val) ELSE None
and_then_string(opt) == IF opt.some THEN DecodeString(opt.val) ELSE None

\* struct Metric { current, min, max: f64, trend: i8 }
DecodeMetric(v) ==
    LET current == and_then_f64(Field(v, "current", 1))
        min     == and_then_f64(Field(v, "min", 2))
        max     == and_then_f64(Field(v, "max", 3))
        trend   == and_then_i8(Field(v, "trend", 4))
    IN  IF StructShape(v, 4) /\ current.some /\ min.some /\ max.some /\ trend.some
        THEN Some(Metric(current.val, min.val, max.val, trend.val))
        ELSE None

and_then_metric(opt) == IF opt.some THEN DecodeMetric(opt.val) ELSE None

\* struct Tag { id, tag_id: u32, datetime: String, temperature, humidity:
\* Metric, battery_low: bool, tag_name: String }
DecodeTag(v) ==
    LET id          == and_then_u32(Field(v, "id", 1))
        tag_id      == and_then_u32(Field(v, "tag_id", 2))
        datetime    == and_then_string(Field(v, "datetime", 3))
        temperature == and_then_metric(Field(v, "temperature", 4))
        humidity    == and_then_metric(Field(v, "humidity", 5))
        battery_low == and_then_bool(Field(v, "battery_low", 6))
        tag_name    == and_then_string(Field(v, "tag_name", 7))
    IN  IF StructShape(v, 7) /\ id.some /\ tag_id.some /\ datetime.some
           /\ temperature.some /\ humidity.some /\ battery_low.some /\ tag_name.some
        THEN Some([id |-> id.val, tag_id |-> tag_id.val, datetime |-> datetime.val,
                   temperature |-> temperature.val, humidity |-> humidity.val,
                   battery_low |-> battery_low.val, tag_name |-> tag_name.val])
        ELSE None

\* serde_json::from_value::<Vec<Tag>>(value.clone())?
parse_custom_ruuvi_api_format(v) ==
    IF v.type # "array" THEN Err("invalid type")
    ELSE IF \E i \in 1..Len(v.items) : ~DecodeTag(v.items[i]).some
         THEN Err("invalid tag")
         ELSE Ok([i \in 1..Len(v.items) |-> DecodeTag(v.items[i]).val])

-----------------------------------------------------------------------------
(* main.rs: load_config.  An identifier is a sequence of characters. *)

Upper == << "A", "B", "C", "D", "E", "F", "G", "H", "I", "J", "K", "L", "M",
            "N", "O", "P", "Q", "R", "S", "T", "U", "V", "W", "X", "Y", "Z" >>
Lower == << "a", "b", "c", "d", "e", "f", "g", "h", "i", "j", "k", "l", "m",
            "n", "o", "p", "q", "r", "s", "t", "u", "v", "w", "x", "y", "z" >>

LowerChar(c) ==
    IF \E i \in 1..Len(Upper) : Upper[i] = c
    THEN Lower[CHOOSE i \in 1..Len(Upper) : Upper[i] = c]
    ELSE c

\* str::to_lowercase
to_lowercase(id) == [i \in 1..Len(id) |-> LowerChar(id[i])]

RuuviGatewayHistoryId ==
    << "r", "u", "u", "v", "i", "-", "g", "a", "t", "e", "w", "a", "y", "-",
       "h", "i", "s", "t", "o", "r", "y" >>
CustomId == << "c", "u", "s", "t", "o", "m" >>

\* The match without to_lowercase.
BackendFormatOfCaseSensitive(backend_format_var) ==
    LET id == unwrap_or(backend_format_var, CustomId)
    IN  IF id = RuuviGatewayHistoryId THEN "RuuviGatewayHistory"
        ELSE "CustomRuuviApi"

\* The match of load_config on the lowercased BACKEND_FORMAT, "custom" when
\* the variable is not set.
BackendFormatOf(backend_format_var) ==
    LET id == to_lowercase(unwrap_or(backend_format_var, CustomId))
    IN  IF id = RuuviGatewayHistoryId THEN "RuuviGatewayHistory"
        ELSE "CustomRuuviApi"

load_config(e) ==
    [api_url |-> e.api_url.val, backend_format |-> BackendFormatOf(e.backend_format)]

NoConfig == [api_url |-> "", backend_format |-> "unset"]

-----------------------------------------------------------------------------
(* main.rs: fetch_data.  A transport outcome is what reqwest::blocking::get *)
(* and Response::json give: an error of either, or the decoded JSON value.  *)

TransportError == [kind |-> "error"]
BodyNotJson == [kind |-> "not_json"]
Body(v) == [kind |-> "json", value |-> v]

fetch_data(cfg, outcome, utc_now) ==
    IF outcome.kind = "error" THEN Err("transport")
    ELSE IF outcome.kind = "not_json" THEN Err("json")
    ELSE IF cfg.backend_format = "RuuviGatewayHistory"
         THEN parse_ruuvi_gateway_format(outcome.value, utc_now)
         ELSE parse_custom_ruuvi_api_format(outcome.value)

-----------------------------------------------------------------------------
(* main.rs: format_time_ago, trend_arrow and render.  Characters outside    *)
(* ASCII are written {U+xxxx}.                                              *)

\* Days since 1970-01-01 of the civil date y-m-d.
DaysFromCivil(y0, m, d) ==
    LET y   == IF m <= 2 THEN y0 - 1 ELSE y0
        era == y \div 400
        yoe == y - era * 400
        mp  == IF m > 2 THEN m - 3 ELSE m + 9
        doy == (153 * mp + 2) \div 5 + d - 1
        doe == yoe * 365 + yoe \div 4 - yoe \div 100 + doy
    IN  era * 146097 + doe - 719468

IsLeapYear(y) == (y % 4 = 0 /\ y % 100 # 0) \/ y % 400 = 0

DaysInMonth(y, m) ==
    IF m = 2 THEN (IF IsLeapYear(y) THEN 29 ELSE 28)
    ELSE IF m \in { 4, 6, 9, 11 } THEN 30 ELSE 31

\* datetime.parse::<DateTime<Utc>>(): the instant, in epoch seconds, of a
\* text that spells an RFC 3339 date-time with valid fields; an error for
\* any other text.  offset is the text's UTC offset in seconds.
ParseDateTime(text) ==
    IF /\ text.wf
       /\ text.month >= 1 /\ text.month <= 12
       /\ text.day >= 1 /\ text.day <= DaysInMonth(text.year, text.month)
       /\ text.hour >= 0 /\ text.hour <= 23
       /\ text.minute >= 0 /\ text.minute <= 59
       /\ text.second >= 0 /\ text.second <= 59
    THEN Some(DaysFromCivil(text.year, text.month, text.day) * SecondsPerDay
              + text.hour * 3600 + text.minute * 60 + text.second - text.offset)
    ELSE None

\* i64 division, which truncates toward zero.
RustDiv(a, b) == IF a >= 0 THEN a \div b ELSE -((-a) \div b)

\* The buckets taken on the magnitude of the difference.
TimeAgoOfMagnitude(datetime, utc_now) ==
    LET parsed == ParseDateTime(datetime)
    IN  IF parsed.some
        THEN LET seconds == IF utc_now >= parsed.val THEN utc_now - parsed.val
                            ELSE parsed.val - utc_now
             IN  IF seconds < 60 THEN ToString(seconds) \o " seconds ago"
                 ELSE IF seconds < 3600 THEN ToString(RustDiv(seconds, 60)) \o " minutes ago"
                 ELSE IF seconds < 86400 THEN ToString(RustDiv(seconds, 3600)) \o " hours ago"
                 ELSE ToString(RustDiv(seconds, 86400)) \o " days ago"
        ELSE "unknown"

\* The hour bucket compared against 3600 with <=.
TimeAgoLateHours(datetime, utc_now) ==
    LET parsed == ParseDateTime(datetime)
    IN  IF parsed.some
        THEN LET seconds == utc_now - parsed.val
             IN  IF seconds < 60 THEN ToString(seconds) \o " seconds ago"
                 ELSE IF seconds <= 3600 THEN ToString(RustDiv(seconds, 60)) \o " minutes ago"
                 ELSE IF seconds < 86400 THEN ToString(RustDiv(seconds, 3600)) \o " hours ago"
                 ELSE ToString(RustDiv(seconds, 86400)) \o " days ago"
        ELSE "unknown"

\* Lines 137-158; utc_now is the Utc::now() read at line 139.
format_time_ago(datetime, utc_now) ==
    LET parsed == ParseDateTime(datetime)
    IN  IF parsed.some
        THEN LET seconds == utc_now - parsed.val
             IN  IF seconds < 60 THEN ToString(seconds) \o " seconds ago"
                 ELSE IF seconds < 3600 THEN ToString(RustDiv(seconds, 60)) \o " minutes ago"
                 ELSE IF seconds < 86400 THEN ToString(RustDiv(seconds, 3600)) \o " hours ago"
                 ELSE ToString(RustDiv(seconds, 86400)) \o " days ago"
        ELSE "unknown"

\* Lines 126-132.
trend_arrow(trend) ==
    IF trend = 1 THEN "{U+25B4}"
    ELSE IF trend = -1 THEN "{U+25BE}"
    ELSE "{U+25B8}"

\* format!("{:.2}", x), and format!("{:+.2}", x) when plus, of x hundredths.
Fixed2(h, plus) ==
    LET abs  == IF h < 0 THEN -h ELSE h
        frac == abs % 100
    IN  (IF h < 0 THEN "-" ELSE IF plus THEN "+" ELSE "")
        \o ToString(abs \div 100) \o "."
        \o (IF frac < 10 THEN "0" ELSE "") \o ToString(frac)

\* Lines 65-112 for one tag: what the window shows for it.
RenderTag(tag, utc_now) ==
    [title |-> tag.tag_name,
     alert |-> IF tag.battery_low THEN "Battery low" ELSE "",
     temperature |-> Fixed2(tag.temperature.current, TRUE) \o "{U+00B0}C",
     temperature_trend |-> trend_arrow(tag.temperature.trend),
     humidity |-> " " \o Fixed2(tag.humidity.current, FALSE) \o "%",
     humidity_trend |-> trend_arrow(tag.humidity.trend),
     range |-> Fixed2(tag.temperature.min, TRUE) \o "{U+2026}"
               \o Fixed2(tag.temperature.max, TRUE) \o "{U+00B0}C",
     updated |-> "Updated: " \o format_time_ago(tag.datetime, utc_now)]

\* Lines 62-121: the window after render, cleared and drawn anew.
render(tags, fault, utc_now) ==
    [rows |-> [i \in 1..Len(tags) |-> RenderTag(tags[i], utc_now)],
     status |-> IF fault THEN "Network error" ELSE ""]

-----------------------------------------------------------------------------
(* Inputs of the scheduler: environments and transport outcomes. *)

FieldSeq(name, opt) == IF opt.some THEN << <<name, opt.val>> >> ELSE << >>

\* One device entry of the gateway's history, from its optional fields.
Entry(temperature, humidity, voltage, timestamp) ==
    JObj(FieldSeq("humidity", humidity) \o FieldSeq("temperature", temperature)
         \o FieldSeq("timestamp", timestamp) \o FieldSeq("voltage", voltage))

\* {"data": {"tags": tags}}
GatewayPayload(tags) == JObj(<< <<"data", JObj(<< <<"tags", tags>> >>)>> >>)

MetricObj(current, min, max, trend) ==
    JObj(<< <<"current", JFloat(current)>>, <<"max", JFloat(max)>>,
            <<"min", JFloat(min)>>, <<"trend", JInt(trend)>> >>)

\* One element of the custom API's array.
TagObj(name, datetime, temperature, humidity, battery_low) ==
    JObj(<< <<"battery_low", JBool(battery_low)>>, <<"datetime", datetime>>,
            <<"humidity", humidity>>, <<"id", JInt(1)>>, <<"tag_id", JInt(1)>>,
            <<"tag_name", JStr(name)>>, <<"temperature", temperature>> >>)

GatewayOne ==
    GatewayPayload(JObj(<< <<"AA:BB", Entry(Some(JFloat(2150)), Some(JFloat(4000)),
                                            Some(JFloat(200)), Some(JInt(StartTime)))>> >>))
GatewayTwo ==
    GatewayPayload(JObj(<< <<"AA:BB", Entry(Some(JFloat(2210)), Some(JFloat(3900)),
                                            Some(JFloat(290)), Some(JInt(StartTime + 30)))>>,
                           <<"CC:DD", Entry(Some(JInt(-3)), Some(JInt(80)),
                                            None, Some(JInt(StartTime + 31)))>> >>))
\* One entry's timestamp is no representable instant.
GatewayBadEntry ==
    GatewayPayload(JObj(<< <<"AA:BB", Entry(Some(JFloat(2150)), Some(JFloat(4000)),
                                            Some(JFloat(200)), Some(JFarInt))>> >>))
GatewayNoTags == JObj(<< <<"data", JObj(<< >>)>> >>)

CustomOne ==
    JArr(<< TagObj("Sauna", JDate(to_rfc3339(from_timestamp_opt([val |-> StartTime, far |-> FALSE]).val)),
                   MetricObj(6550, 2100, 7000, 1), MetricObj(1500, 1000, 3000, -1), FALSE) >>)
CustomTwo ==
    JArr(<< TagObj("Sauna", JStr("yesterday"),
                   MetricObj(2100, 2100, 7000, -1), MetricObj(3000, 1000, 3000, 0), TRUE),
            TagObj("Yard", JDate(to_rfc3339(from_timestamp_opt([val |-> StartTime + 30, far |-> FALSE]).val)),
                   MetricObj(-1250, -1500, 300, 0), MetricObj(8000, 6000, 9000, 1), FALSE) >>)
\* A tag without its tag_name.
CustomBadTag ==
    JArr(<< JObj(<< <<"id", JInt(1)>>, <<"tag_id", JInt(1)>> >>) >>)

TransportOutcomes ==
    { TransportError, BodyNotJson }
    \cup { Body(v) : v \in { GatewayOne, GatewayTwo, GatewayBadEntry, GatewayNoTags,
                             CustomOne, CustomTwo, CustomBadTag } }

ApiUrl == "http://gateway.local/history"

\* The environments main is started in: BACKEND_FORMAT set to either
\* recognized identifier or not set, and one start without API_URL.
SchedulerEnvs ==
    { [api_url |-> Some(ApiUrl), backend_format |-> b] :
          b \in { None, Some(RuuviGatewayHistoryId) } }
    \cup { [api_url |-> None, backend_format |-> None] }

Keys == { "q", "x" }

-----------------------------------------------------------------------------
(* main.rs: main. *)

RefreshInterval == 60

DueStrict(n, last) == (n - last) > RefreshInterval

\* if (now - last_refresh).num_seconds() >= 60
Due(n, last) == (n - last) >= RefreshInterval

\* The wall clock d seconds on, up to the horizon of the model.
Advance(t, d) == IF t + d <= StartTime + MaxTime THEN t + d ELSE t

NoHist ==
    [started |-> FALSE,     \* the loop has begun an iteration
     attempts |-> 0,        \* fetch attempts so far, counted up to 2
     last_ok |-> FALSE,     \* the most recent attempt succeeded
     last_good |-> << >>,   \* the tags of the most recent successful attempt
     gap |-> 0,             \* seconds between the last two attempts
     prev_attempt |-> 0,    \* `now` of the most recent attempt
     elapsed |-> 0,         \* now - last_refresh at the start of the iteration
     fetched |-> FALSE,     \* this iteration attempted a fetch
     renders |-> 0,         \* render calls of this iteration
     polls |-> 0,           \* getch calls of this iteration
     quit_read |-> FALSE]   \* the getch of this iteration read 'q'

Init ==
    /\ pc = "load_config"
    /\ env \in SchedulerEnvs
    /\ config = NoConfig
    /\ clock = StartTime
    /\ now = StartTime
    /\ last_refresh = StartTime
    /\ data = << >>
    /\ network_error = FALSE
    /\ keys = << >>
    /\ screen = [drawn |-> FALSE]
    /\ hist = NoHist
    /\ value = JNull
    /\ result = None
    /\ again = None

\* last_refresh started at the current time.
LoadConfigRefreshNow ==
    /\ pc = "load_config"
    /\ IF env.api_url.some
       THEN /\ config' = load_config(env)
            /\ network_error' = FALSE
            /\ last_refresh' = clock
            /\ data' = << >>
            /\ pc' = "initscr"
       ELSE /\ pc' = "panicked"
            /\ UNCHANGED << config, network_error, last_refresh, data >>
    /\ UNCHANGED << env, clock, now, keys, screen, hist, value, result, again >>

\* Lines 195-198: load_config (which panics without API_URL) and the three
\* locals of main.
LoadConfig ==
    /\ pc = "load_config"
    /\ IF env.api_url.some
       THEN /\ config' = load_config(env)
            /\ network_error' = FALSE
            /\ last_refresh' = clock - 60
            /\ data' = << >>
            /\ pc' = "initscr"
       ELSE /\ pc' = "panicked"
            /\ UNCHANGED << config, network_error, last_refresh, data >>
    /\ UNCHANGED << env, clock, now, keys, screen, hist, value, result, again >>

\* Lines 200-216: main returns when the terminal has no colours.
InitScreen ==
    /\ pc = "initscr"
    /\ \E has_colors \in BOOLEAN :
          pc' = IF has_colors THEN "loop" ELSE "returned"
    /\ UNCHANGED << env, config, clock, now, last_refresh, data, network_error,
                    keys, screen, hist, value, result, again >>

\* Lines 219-221: the top of the loop reads the clock and decides on a fetch.
LoopTop ==
    /\ pc = "loop"
    /\ now' = clock
    /\ pc' = IF Due(now', last_refresh) THEN "fetch" ELSE "render"
    /\ hist' = [hist EXCEPT !.started = TRUE, !.elapsed = now' - last_refresh,
                            !.fetched = FALSE, !.renders = 0, !.polls = 0,
                            !.quit_read = FALSE]
    /\ UNCHANGED << env, config, clock, last_refresh, data, network_error, keys,
                    screen, value, result, again >>

\* The Err arm empties data.
FetchArmsClearOnErr(fetched) ==
    /\ IF fetched.ok
       THEN /\ data' = fetched.tags
            /\ last_refresh' = now
            /\ network_error' = FALSE
       ELSE /\ network_error' = TRUE
            /\ data' = << >>
            /\ UNCHANGED last_refresh
    /\ pc' = "render"

\* The Ok arm leaves network_error as it was.
FetchArmsStickyError(fetched) ==
    /\ IF fetched.ok
       THEN /\ data' = fetched.tags
            /\ last_refresh' = now
            /\ UNCHANGED network_error
       ELSE /\ network_error' = TRUE
            /\ UNCHANGED << data, last_refresh >>
    /\ pc' = "render"

\* The Err arm ends in `continue`.
FetchArmsContinueOnErr(fetched) ==
    IF fetched.ok
    THEN /\ data' = fetched.tags
         /\ last_refresh' = now
         /\ network_error' = FALSE
         /\ pc' = "render"
    ELSE /\ network_error' = TRUE
         /\ pc' = "loop"
         /\ UNCHANGED << data, last_refresh >>

\* The Err arm ends in `break`.
FetchArmsBreakOnErr(fetched) ==
    IF fetched.ok
    THEN /\ data' = fetched.tags
         /\ last_refresh' = now
         /\ network_error' = FALSE
         /\ pc' = "render"
    ELSE /\ network_error' = TRUE
         /\ pc' = "stopped"
         /\ UNCHANGED << data, last_refresh >>

\* Lines 222-232: the two arms of the match on fetch_data's Result; both
\* fall through to the render call.
FetchArms(fetched) ==
    /\ IF fetched.ok
       THEN /\ data' = fetched.tags
            /\ last_refresh' = now
            /\ network_error' = FALSE
       ELSE /\ network_error' = TRUE
            /\ UNCHANGED << data, last_refresh >>
    /\ pc' = "render"

\* Line 222: fetch_data(&config), which blocks until the transport answers.
Fetch ==
    /\ pc = "fetch"
    /\ \E outcome \in TransportOutcomes :
          LET fetched == fetch_data(config, outcome, clock)
          IN  /\ FetchArms(fetched)
              /\ hist' = [hist EXCEPT
                            !.attempts = IF @ < 2 THEN @ + 1 ELSE @,
                            !.last_ok = fetched.ok,
                            !.last_good = IF fetched.ok THEN fetched.tags ELSE @,
                            !.gap = now - hist.prev_attempt,
                            !.prev_attempt = now,
                            !.fetched = TRUE]
    /\ UNCHANGED << env, config, clock, now, keys, screen, value, result, again >>

\* Line 234: render(&window, &data, network_error).
Render ==
    /\ pc = "render"
    /\ screen' = [drawn |-> TRUE, data |-> data, network_error |-> network_error,
                  window |-> render(data, network_error, clock)]
    /\ hist' = [hist EXCEPT !.renders = @ + 1]
    /\ pc' = "poll"
    /\ UNCHANGED << env, config, clock, now, last_refresh, data, network_error,
                    keys, value, result, again >>

QuitKeyUpper(k) == k = "Q"

\* Line 237: Some(Input::Character('q')) => break
QuitKey(k) == k = "q"

\* Lines 236-239 and 244: getch without delay; 'q' breaks out of the loop to
\* endwin.
Poll ==
    /\ pc = "poll"
    /\ IF keys # << >>
       THEN /\ keys' = Tail(keys)
            /\ pc' = IF QuitKey(Head(keys)) THEN "stopped" ELSE "sleep"
            /\ hist' = [hist EXCEPT !.polls = @ + 1, !.quit_read = (Head(keys) = "q")]
       ELSE /\ pc' = "sleep"
            /\ hist' = [hist EXCEPT !.polls = @ + 1]
            /\ UNCHANGED keys
    /\ UNCHANGED << env, config, clock, now, last_refresh, data, network_error,
                    screen, value, result, again >>

\* Line 241: thread::sleep of one second; the iteration as a whole takes
\* that second and up to MaxSlack more.
Sleep ==
    /\ pc = "sleep"
    /\ \E slack \in 0..MaxSlack : clock' = Advance(clock, 1 + slack)
    /\ pc' = "loop"
    /\ UNCHANGED << env, config, now, last_refresh, data, network_error, keys,
                    screen, hist, value, result, again >>

\* The user types a key while the program runs.
PressKey ==
    /\ pc \in { "loop", "fetch", "render", "poll", "sleep" }
    /\ Len(keys) < MaxKeys
    /\ \E k \in Keys : keys' = Append(keys, k)
    /\ UNCHANGED << pc, env, config, clock, now, last_refresh, data,
                    network_error, screen, hist, value, result, again >>

Step == LoadConfig \/ InitScreen \/ LoopTop \/ Fetch \/ Render \/ Poll \/ Sleep

Next == Step \/ PressKey

Spec == Init /\ [][Next]_vars

\* The loop is sequential code: whenever it has a next step, it takes it.
FairSpec == Spec /\ WF_vars(Step)

-----------------------------------------------------------------------------
(* Properties of the refresh loop. *)

InLoop == pc \in { "loop", "fetch", "render", "poll", "sleep" }

\* C1: the snapshot the loop holds, and hands to render, is the result of the
\* most recent successful fetch and parse, or empty when none has succeeded:
\* a failed attempt leaves it as it was, a successful one replaces it whole.
C1_SnapshotIsLastGood ==
    /\ data = hist.last_good
    /\ (pc = "poll" => screen.drawn /\ screen.data = hist.last_good)

\* A failed fetch after a successful one: the earlier tags are on screen,
\* with the fault flag.
C1_Witness ==
    /\ pc = "poll"
    /\ hist.fetched /\ ~hist.last_ok
    /\ screen.data # << >> /\ screen.network_error

\* C2 (as claimed): after every fetch attempt, failed or not, last_refresh is
\* the `now` of that attempt, and two consecutive attempts are at least 60
\* seconds apart.
C2_AttemptsPaced ==
    /\ (pc = "render" /\ hist.fetched => last_refresh = now)
    /\ (hist.attempts = 2 => hist.gap >= RefreshInterval)

\* C3: network_error is true exactly when a fetch has been attempted and the
\* most recent attempt failed, and no step but the fetch step changes it.
C3_FaultIffLastAttemptFailed ==
    /\ [](network_error <=> (hist.attempts > 0 /\ ~hist.last_ok))
    /\ [][pc # "fetch" => network_error' = network_error]_vars

\* The fault flag is cleared by a success that follows a failure.
C3_Witness ==
    /\ pc = "render" /\ hist.fetched /\ hist.last_ok /\ hist.attempts = 2
    /\ hist.gap < RefreshInterval /\ ~network_error

\* C4: an iteration attempts a fetch exactly when now - last_refresh, taken
\* at its start, is at least 60 seconds.
C4_FetchIffDue ==
    /\ (pc = "fetch" => hist.elapsed >= 60)
    /\ (pc \in { "render", "poll", "sleep", "stopped" } /\ hist.started
            => (hist.fetched <=> hist.elapsed >= 60))

\* An iteration one second short of the interval goes by without a fetch.
C4_Witness == pc = "render" /\ ~hist.fetched /\ hist.elapsed = 59

\* C5: every iteration calls render exactly once, after its fetch step and
\* before its getch, with the data and fault flag as the fetch step left them.
C5_RenderOncePerIteration ==
    /\ (pc \in { "fetch", "render" } => hist.renders = 0 /\ hist.polls = 0)
    /\ (pc = "poll" => /\ hist.renders = 1 /\ hist.polls = 0
                       /\ screen.drawn /\ screen.data = data
                       /\ screen.network_error = network_error)
    /\ (pc \in { "sleep", "stopped" } => hist.renders = 1)
    /\ (pc = "loop" /\ hist.started => hist.renders = 1)

\* An iteration whose fetch failed has rendered, with the fault flag.
C5_Witness ==
    /\ pc = "poll" /\ hist.renders = 1
    /\ hist.fetched /\ ~hist.last_ok /\ screen.network_error

\* A 'q' is among the keys typed and not yet read.
QuitPending == \E i \in 1..Len(keys) : keys[i] = "q"

\* C6: every iteration polls the keyboard once; a 'q' read at that poll stops
\* the loop in that iteration, whatever the elapsed time and the fault flag;
\* once stopped nothing is fetched or rendered; and a 'q' typed while the
\* loop runs leads to the stop.
C6_QuitStops ==
    /\ [](/\ (pc \in { "sleep", "stopped" } => hist.polls = 1)
          /\ (pc = "loop" /\ hist.started => hist.polls = 1)
          /\ (hist.quit_read => pc = "stopped"))
    /\ [][pc = "poll" /\ pc' # "poll" /\ keys # << >> /\ Head(keys) = "q"
             => pc' = "stopped"]_vars
    /\ [][pc = "stopped" => UNCHANGED vars]_vars
    /\ ((InLoop /\ QuitPending) ~> (pc = "stopped"))

\* The loop was stopped in the middle of an interval.
C6_Witness ==
    /\ pc = "stopped" /\ hist.quit_read
    /\ hist.elapsed > 0 /\ hist.elapsed < RefreshInterval

\* C7: no failed fetch stops the loop: the step after any fetch is the render
\* call, the loop stops only by reading 'q' at its poll, and after a failed
\* fetch the loop comes to fetch again unless it is stopped by 'q'.
C7_ErrorsNeverStop ==
    /\ [][pc = "fetch" /\ pc' # "fetch" => pc' = "render"]_vars
    /\ [][pc # "stopped" /\ pc' = "stopped"
             => pc = "poll" /\ keys # << >> /\ Head(keys) = "q"]_vars
    /\ ((pc = "render" /\ hist.fetched /\ ~hist.last_ok)
            ~> (pc = "fetch" \/ pc = "stopped"))

\* The loop fetches again after a failed fetch.
C7_Witness ==
    /\ pc = "render" /\ hist.fetched /\ hist.attempts = 2
    /\ network_error /\ hist.gap < RefreshInterval

-----------------------------------------------------------------------------
(* Configuration alone: main is started under many spellings of            *)
(* BACKEND_FORMAT and runs up to the loop.                                  *)

UpperChar(c) ==
    IF \E i \in 1..Len(Lower) : Lower[i] = c
    THEN Upper[CHOOSE i \in 1..Len(Lower) : Lower[i] = c]
    ELSE c

\* id with its i-th character in upper case.
UpperAt(id, i) == [id EXCEPT ![i] = UpperChar(id[i])]

GatewayHistoryId ==
    << "g", "a", "t", "e", "w", "a", "y", "-", "h", "i", "s", "t", "o", "r", "y" >>
PassthroughId ==
    << "p", "a", "s", "s", "t", "h", "r", "o", "u", "g", "h" >>
NonsenseId == << "n", "o", "n", "s", "e", "n", "s", "e" >>

BackendIds ==
    { RuuviGatewayHistoryId, CustomId, GatewayHistoryId, PassthroughId, NonsenseId,
      << >>, RuuviGatewayHistoryId \o << " " >>,
      [i \in 1..Len(RuuviGatewayHistoryId) |-> UpperChar(RuuviGatewayHistoryId[i])],
      [i \in 1..Len(GatewayHistoryId) |-> UpperChar(GatewayHistoryId[i])] }
    \cup { UpperAt(RuuviGatewayHistoryId, i) : i \in 1..Len(RuuviGatewayHistoryId) }
    \cup { UpperAt(CustomId, i) : i \in 1..Len(CustomId) }

ConfigEnvs ==
    { [api_url |-> u, backend_format |-> b] :
          u \in { None, Some(ApiUrl) },
          b \in { None } \cup { Some(id) : id \in BackendIds } }

ConfigInit ==
    /\ pc = "load_config"
    /\ env \in ConfigEnvs
    /\ config = NoConfig
    /\ clock = StartTime
    /\ now = StartTime
    /\ last_refresh = StartTime
    /\ data = << >>
    /\ network_error = FALSE
    /\ keys = << >>
    /\ screen = [drawn |-> FALSE]
    /\ hist = NoHist
    /\ value = JNull
    /\ result = None
    /\ again = None

ConfigNext == LoadConfig \/ InitScreen

ConfigSpec == ConfigInit /\ [][ConfigNext]_vars

\* a and b are the same identifier but for the case of their letters.
SameIgnoringCase(a, b) ==
    /\ Len(a) = Len(b)
    /\ \A i \in 1..Len(a) :
          \/ a[i] = b[i]
          \/ \E k \in 1..Len(Upper) : { a[i], b[i] } = { Upper[k], Lower[k] }

Configured == pc \in { "initscr", "loop", "returned" }

-----------------------------------------------------------------------------
(* The adapters alone: one raw JSON value is handed to an adapter. *)

TemperatureFields == { None, Some(JFloat(2150)), Some(JInt(21)), Some(JStr("21.5")) }
HumidityFields == { None, Some(JFloat(4000)) }
VoltageFields ==
    { None, Some(JFloat(200)), Some(JFloat(201)), Some(JInt(2)), Some(JInt(3)),
      Some(JStr("2.0")) }
\* Ages, in seconds before the start of the run, of the instants in the
\* payloads: both sides of every bucket of format_time_ago, and the future.
Ages == { 0, 59, 60, 90, 3599, 3600, 86399, 86400, 90000, -1, -4000, -90000 }

TimestampFields ==
    { None, Some(JFloat(150)), Some(JFarInt) }
    \cup { Some(JInt(StartTime - a)) : a \in Ages }

Entries ==
    { Entry(t, h, v, ts) : t \in TemperatureFields, h \in HumidityFields,
                           v \in VoltageFields, ts \in TimestampFields }

\* The entries that payloads of two devices are built from.
PairEntries ==
    { Entry(t, Some(JFloat(4000)), v, ts) :
          t \in { None, Some(JFloat(2150)) },
          v \in { Some(JFloat(200)), Some(JFloat(201)) },
          ts \in { Some(JInt(StartTime - 90)), Some(JFarInt) } }

\* The RFC 3339 text, at offset +00:00, of the instant ts.
DateOf(ts) == to_rfc3339(from_timestamp_opt([val |-> ts, far |-> FALSE]).val)

\* The same instant written at offset +02:00.
DateAtPlusTwo(ts) == [DateOf(ts + 7200) EXCEPT !.offset = 7200]

\* Date-time texts with the instant each spells.
KnownTexts ==
    { << DateOf(StartTime - a), StartTime - a >> : a \in Ages }
    \cup { << DateAtPlusTwo(StartTime - a), StartTime - a >> : a \in { 0, 90 } }

\* Texts that spell no instant: no date-time at all, and a thirteenth month.
UnparsableTexts ==
    { PlainText("yesterday"), PlainText(""),
      [DateOf(StartTime) EXCEPT !.month = 13] }

\* One element of the custom API's array, with an "unreachable" member when
\* the upstream sends one.
TagObjWith(name, datetime, battery_low, unreachable) ==
    JObj(TagObj(name, datetime, MetricObj(2150, 2100, 7000, 1),
                MetricObj(4000, 1000, 4000, -1), battery_low).members
         \o FieldSeq("unreachable", unreachable))

CustomPayloads ==
    { JArr(<< TagObjWith("Sauna", JDate(d), b, u) >>) :
          d \in { kt[1] : kt \in KnownTexts } \cup UnparsableTexts,
          b \in BOOLEAN,
          u \in { None, Some(JBool(TRUE)), Some(JBool(FALSE)) } }
    \cup { JArr(<< TagObjWith("Sauna", JDate(DateOf(StartTime)), FALSE, None),
                   TagObjWith("Sauna", JDate(DateOf(StartTime - 90)), TRUE, None) >>) }

AdapterPayloads ==
    { GatewayPayload(JObj(<< <<"AA:BB", e>> >>)) : e \in Entries }
    \cup { GatewayPayload(JObj(<< <<"AA:BB", e1>>, <<"CC:DD", e2>> >>)) :
               e1 \in PairEntries, e2 \in PairEntries }
    \cup { GatewayPayload(JObj(<< <<"AA:BB", JInt(7)>> >>)),
           GatewayPayload(JObj(<< >>)), GatewayPayload(JArr(<< >>)),
           GatewayPayload(JNull), GatewayNoTags, JNull,
           CustomOne, CustomTwo, CustomBadTag, JArr(<< >>) }
    \cup CustomPayloads

\* The snapshot of an earlier successful fetch.
PriorSnapshot == parse_ruuvi_gateway_format(GatewayOne, StartTime).tags

\* The loop at line 222, about to fetch value, with data empty or holding
\* an earlier snapshot.
AdapterInit ==
    /\ pc = "adapter"
    /\ value \in AdapterPayloads
    /\ env \in { e \in SchedulerEnvs : e.api_url.some }
    /\ config = load_config(env)
    /\ clock = StartTime
    /\ now = StartTime
    /\ last_refresh = StartTime - RefreshInterval
    /\ data \in { << >>, PriorSnapshot }
    /\ network_error = FALSE
    /\ keys = << >>
    /\ screen = [drawn |-> FALSE]
    /\ hist = [NoHist EXCEPT !.last_good = data]
    /\ result = None
    /\ again = None

\* Line 54: the gateway arm of fetch_data's match.
ParseGateway ==
    /\ pc = "adapter"
    /\ config.backend_format = "RuuviGatewayHistory"
    /\ result' = Some(parse_ruuvi_gateway_format(value, clock))
    /\ pc' = "parsed_gateway"
    /\ UNCHANGED << env, config, clock, now, last_refresh, data, network_error,
                    keys, screen, hist, value, again >>

\* Line 55: the custom arm of fetch_data's match.
ParseCustom ==
    /\ pc = "adapter"
    /\ config.backend_format = "CustomRuuviApi"
    /\ result' = Some(parse_custom_ruuvi_api_format(value))
    /\ pc' = "parsed_custom"
    /\ UNCHANGED << env, config, clock, now, last_refresh, data, network_error,
                    keys, screen, hist, value, again >>

Parsed == pc \in { "parsed_gateway", "parsed_custom" }

\* The same value handed to the same adapter once more, up to
\* MaxReparseDelay seconds later.
Reparse ==
    /\ Parsed
    /\ ~again.some
    /\ \E delay \in 0..MaxReparseDelay :
          /\ clock' = clock + delay
          /\ again' = Some(fetch_data(config, Body(value), clock'))
    /\ UNCHANGED << pc, env, config, now, last_refresh, data, network_error,
                    keys, screen, hist, value, result >>

\* Lines 222-232 on the Result the adapter returned.
MatchResult ==
    /\ Parsed
    /\ FetchArms(result.val)
    /\ hist' = [hist EXCEPT
                  !.attempts = 1,
                  !.last_ok = result.val.ok,
                  !.last_good = IF result.val.ok THEN result.val.tags ELSE @,
                  !.prev_attempt = now,
                  !.fetched = TRUE]
    /\ UNCHANGED << env, config, clock, now, keys, screen, value, result, again >>

AdapterNext == ParseGateway \/ ParseCustom \/ Reparse \/ MatchResult \/ Render

AdapterSpec == AdapterInit /\ [][AdapterNext]_vars

\* The device entries of a gateway payload, when data.tags is an object.
TagsOf(v) == Index(Index(v, "data"), "tags")

IsNumber(opt) == opt.some /\ opt.val.type = "number"

\* An entry of the kind the claim calls malformed: temperature or humidity
\* missing or not a number, or a timestamp that is no representable instant.
MalformedEntry(e) ==
    \/ ~IsNumber(get(e, "temperature"))
    \/ ~IsNumber(get(e, "humidity"))
    \/ get(e, "timestamp") = Some(JFarInt)

\* An entry with numeric temperature and humidity and an integer timestamp
\* within range, or none.
WellFormedEntry(e) ==
    /\ IsNumber(get(e, "temperature"))
    /\ IsNumber(get(e, "humidity"))
    /\ \/ ~get(e, "timestamp").some
       \/ IsNumber(get(e, "timestamp")) /\ get(e, "timestamp").val.repr = "int"

HasReading(tags, name) == \E i \in 1..Len(tags) : tags[i].tag_name = PlainText(name)

GatewayParsed == pc = "parsed_gateway" /\ is_object(TagsOf(value))

\* C9 (as claimed): a malformed device entry does not abort the batch: the
\* adapter returns Ok, without the malformed entries and with every
\* well-formed entry of the payload.
C9_MalformedEntrySkipped ==
    GatewayParsed =>
        /\ result.val.ok
        /\ \A i \in 1..Len(TagsOf(value).members) :
              LET key == TagsOf(value).members[i][1]
                  e   == TagsOf(value).members[i][2]
              IN  /\ (MalformedEntry(e) => ~HasReading(result.val.tags, key))
                  /\ (WellFormedEntry(e) => HasReading(result.val.tags, key))

\* The f64 (in hundredths) of a numeric voltage field.
NumberValue(v) == IF v.repr = "int" THEN v.val * 100 ELSE v.val

\* C10: a reading's battery_low is true exactly when its entry's voltage is
\* at most 2.0, and false for an entry without a voltage field.
C10_BatteryLowThreshold ==
    GatewayParsed /\ result.val.ok =>
        \A i \in 1..Len(TagsOf(value).members) :
            LET key     == TagsOf(value).members[i][1]
                voltage == get(TagsOf(value).members[i][2], "voltage")
            IN  \A j \in 1..Len(result.val.tags) :
                    result.val.tags[j].tag_name = PlainText(key) =>
                        /\ (IsNumber(voltage) =>
                              (result.val.tags[j].battery_low
                                   <=> NumberValue(voltage.val) <= 200))
                        /\ (~voltage.some => ~result.val.tags[j].battery_low)

\* Two devices in one payload, one at 2.0 V and low, one at 2.01 V and not.
C10_Witness ==
    /\ GatewayParsed /\ result.val.ok
    /\ Len(result.val.tags) = 2
    /\ get(TagsOf(value).members[1][2], "voltage") = Some(JFloat(200))
    /\ get(TagsOf(value).members[2][2], "voltage") = Some(JFloat(201))
    /\ result.val.tags[1].battery_low /\ ~result.val.tags[2].battery_low

\* C11: every reading the gateway adapter returns has min = max = current
\* for temperature and for humidity, and trend 0 (flat) for both.
C11_GatewayMetricsFlat ==
    pc = "parsed_gateway" /\ result.val.ok =>
        \A j \in 1..Len(result.val.tags) :
            LET t == result.val.tags[j].temperature
                h == result.val.tags[j].humidity
            IN  /\ t.min = t.current /\ t.max = t.current /\ t.trend = 0
                /\ h.min = h.current /\ h.max = h.current /\ h.trend = 0

\* A reading with a temperature and a humidity other than the defaults.
C11_Witness ==
    /\ pc = "parsed_gateway" /\ result.val.ok
    /\ Len(result.val.tags) = 2
    /\ result.val.tags[1].temperature = Metric(2150, 2150, 2150, 0)
    /\ result.val.tags[2].humidity = Metric(4000, 4000, 4000, 0)

UsesGateway == config.backend_format = "RuuviGatewayHistory"

\* C12: the gateway adapter returns an error whenever data.tags is absent or
\* is no JSON object, and the loop then sets the fault flag and keeps the
\* snapshot it had.
C12_MissingTagsIsError ==
    /\ (pc = "parsed_gateway" /\ ~is_object(TagsOf(value)) => ~result.val.ok)
    /\ (pc \in { "render", "poll" } /\ UsesGateway /\ ~is_object(TagsOf(value))
            => /\ network_error
               /\ data = hist.last_good
               /\ data \in { << >>, PriorSnapshot })

\* A payload without data.tags arrived while an earlier snapshot was held:
\* the earlier snapshot is drawn, with the fault line.
C12_Witness ==
    /\ pc = "poll" /\ UsesGateway /\ value = GatewayNoTags
    /\ data = PriorSnapshot /\ screen.data = PriorSnapshot
    /\ screen.window.status = "Network error"

\* The text the claim gives for a difference of d whole seconds.
ClaimedTimeAgo(d) ==
    IF d < 60 THEN ToString(d) \o " seconds ago"
    ELSE IF d < 3600 THEN ToString(d \div 60) \o " minutes ago"
    ELSE IF d < 86400 THEN ToString(d \div 3600) \o " hours ago"
    ELSE ToString(d \div 86400) \o " days ago"

\* The tags of value were drawn: the window's rows are those of data.
Drawn == pc = "poll" /\ hist.last_ok

\* C13: for a reading observed at a known instant, d seconds before the
\* clock at render, the row shows "<d> seconds ago" under 60, the floor of
\* d/60 in minutes under 3600, of d/3600 in hours under 86400, else of
\* d/86400 in days; for a text that spells no instant it shows "unknown".
C13_TimeAgoBuckets ==
    Drawn =>
        \A i \in 1..Len(data) :
            /\ \A kt \in KnownTexts :
                  data[i].datetime = kt[1] =>
                      screen.window.rows[i].updated
                          = "Updated: " \o ClaimedTimeAgo(clock - kt[2])
            /\ (data[i].datetime \in UnparsableTexts
                    => screen.window.rows[i].updated = "Updated: unknown")

\* A reading 90 seconds old is shown as one minute old.
C13_Witness ==
    /\ Drawn /\ Len(data) = 1 /\ clock = StartTime
    /\ data[1].datetime = DateOf(StartTime - 90)
    /\ screen.window.rows[1].updated = "Updated: 1 minutes ago"

\* C19: for a reading whose instant lies after the clock at render, however
\* far, the row shows the negative difference in seconds, never "unknown"
\* and never minutes, hours or days.
C19_FutureInSeconds ==
    Drawn =>
        \A i \in 1..Len(data) :
            \A kt \in KnownTexts :
                data[i].datetime = kt[1] /\ kt[2] > clock =>
                    screen.window.rows[i].updated
                        = "Updated: -" \o ToString(kt[2] - clock) \o " seconds ago"

\* A reading dated more than a day ahead.
C19_Witness ==
    /\ Drawn /\ Len(data) = 1 /\ clock = StartTime
    /\ data[1].datetime = DateOf(StartTime + 90000)
    /\ screen.window.rows[1].updated = "Updated: -90000 seconds ago"

\* C14 (as claimed): each row shows at most one alert label: "Unreachable"
\* when the reading is unreachable, even with a low battery, otherwise
\* "Battery low" when battery_low, otherwise none.
C14_AlertPrecedence ==
    Drawn /\ value.type = "array" =>
        \A i \in 1..Len(data) :
            screen.window.rows[i].alert =
                IF get(value.items[i], "unreachable") = Some(JBool(TRUE))
                THEN "Unreachable"
                ELSE IF data[i].battery_low THEN "Battery low" ELSE ""

\* C15 (as claimed): parsing the same value twice with the same adapter gives
\* equal results, entries without a timestamp included.
C15_ReparseEqual == again.some => again.val = result.val

NamesDistinct(tags) ==
    \A i \in 1..Len(tags) : \A j \in 1..Len(tags) :
        i # j => tags[i].tag_name # tags[j].tag_name

\* C16 (as claimed): whichever adapter produced it, the snapshot the loop
\* holds has no two readings of the same name.
C16_NamesDistinct == NamesDistinct(data)

\* C16 (amended): a snapshot that the gateway adapter produced has no two
\* readings of the same name, as returned and as held by the loop.
C16_GatewayNamesDistinct ==
    /\ (pc = "parsed_gateway" /\ result.val.ok => NamesDistinct(result.val.tags))
    /\ (UsesGateway => NamesDistinct(data))

\* The loop holds the two readings of a two-device payload.
C16_Witness ==
    /\ Drawn /\ UsesGateway /\ Len(data) = 2
    /\ data[1].tag_name = PlainText("AA:BB") /\ data[2].tag_name = PlainText("CC:DD")

\* An entry with numeric temperature and humidity and an integer timestamp
\* that is a representable instant.
CompleteEntry(e) ==
    /\ IsNumber(get(e, "temperature"))
    /\ IsNumber(get(e, "humidity"))
    /\ IsNumber(get(e, "timestamp")) /\ get(e, "timestamp").val.repr = "int"

\* C18: for a gateway payload of complete entries the adapter returns one
\* reading per key of data.tags, in the order of the keys, named by the key,
\* with the entry's temperature and humidity as current values and the
\* entry's epoch seconds as the instant of its datetime.
C18_OneReadingPerKey ==
    /\ GatewayParsed
    /\ \A i \in 1..Len(TagsOf(value).members) :
          CompleteEntry(TagsOf(value).members[i][2])
    => /\ result.val.ok
       /\ Len(result.val.tags) = Len(TagsOf(value).members)
       /\ \A i \in 1..Len(TagsOf(value).members) :
             LET key == TagsOf(value).members[i][1]
                 e   == TagsOf(value).members[i][2]
                 tag == result.val.tags[i]
             IN  /\ tag.tag_name = PlainText(key)
                 /\ tag.temperature.current = NumberValue(get(e, "temperature").val)
                 /\ tag.humidity.current = NumberValue(get(e, "humidity").val)
                 /\ ParseDateTime(tag.datetime) = Some(get(e, "timestamp").val.val)

\* The payload of one device AA:BB at 21.5 degrees and 2.0 V.
C18_Witness ==
    /\ pc = "parsed_gateway" /\ value = GatewayOne /\ result.val.ok
    /\ Len(result.val.tags) = 1
    /\ result.val.tags[1].tag_name = PlainText("AA:BB")
    /\ result.val.tags[1].temperature.current = 2150
    /\ result.val.tags[1].battery_low
    /\ ParseDateTime(result.val.tags[1].datetime) = Some(StartTime)

\* C17: the first iteration attempts a fetch: at its check now - last_refresh
\* is at least 60, so nothing is rendered, polled or slept on before the
\* first attempt.
C17_FirstIterationFetches ==
    /\ (pc = "fetch" => hist.elapsed >= RefreshInterval)
    /\ (hist.started /\ pc # "fetch" => hist.attempts > 0)
    /\ (screen.drawn => hist.attempts > 0)

\* The first check of the loop, exactly 60 seconds after last_refresh.
C17_Witness ==
    /\ pc = "fetch" /\ hist.attempts = 0 /\ ~screen.drawn
    /\ hist.elapsed = RefreshInterval

=============================================================================
